---------------------------- MODULE Spec2Model ----------------------------
(***************************************************************************)
(* react-mse-player: the connection/session state machine of the          *)
(* MSEVideoStream component, with its segment queue, stall watchdog and   *)
(* reconnection policy.                                                    *)
(*                                                                         *)
(* Two component variants are modelled:                                    *)
(*   "fixed"  src/src/MSEVideoStream.js and the first component of        *)
(*            src/src/MSEVideoStream.tsx (lines 1-430): fixed 2 s          *)
(*            reconnect delay, stall watchdog;                             *)
(*   "rtc"    the second component of src/src/MSEVideoStream.tsx (lines   *)
(*            432-867), the VideoRTC-style variant: reconnect delay       *)
(*            computed from the connect timestamp, no watchdog.           *)
(*                                                                         *)
(* The browser (WebSocket, MediaSource, SourceBuffer, timers, clock) is   *)
(* the environment: its objects are kept in sockets, sources, sinks and   *)
(* timers, and its events are the actions of Next.  Handlers are          *)
(* operators from a world record (all variables) to a world record, so    *)
(* that a handler and every call it makes is one atomic step, as on the   *)
(* single-threaded event loop.                                             *)
(***************************************************************************)
EXTENDS Integers, Sequences, FiniteSets, TLC

VARIABLES
    variant,     \* which component variant runs: "fixed", "rtc" or
                 \* "listener"
    mseSupported,\* window.ManagedMediaSource || window.MediaSource exists
    state,       \* stateRef.current
    connectTS,   \* connectTSRef.current (rtc variant)
    status,      \* useState status: the last value given to updateStatus
    error,       \* useState error: the last value given to updateError
    videoRef,    \* videoRef.current is an element (FALSE: null)
    videoSrc,    \* the media source attached to the video element, or NULL
    sockets,     \* every WebSocket created, by id
    sources,     \* every MediaSource created, by id
    sinks,       \* every SourceBuffer created, by id
    timers,      \* every setTimeout/setInterval made, by id
    now,         \* Date.now(), in ms (see Advance)
    arrived,     \* number of binary messages delivered so far
    runs,        \* number of runs of the main effect
    effect,      \* a teardown of the main effect is registered
    limits,      \* the bounds of this behaviour (a profile, see Profiles)
    src,         \* the src property seen by the current run of the effect
    origin,      \* window.location.origin
    media,       \* the media property
    codecsRef,   \* codecsRef.current
    supported,   \* the types MediaSourceClass.isTypeSupported accepts
    closures,    \* listener variant: the variables ws, ms and
                 \* reconnectTimeout of each run of the main effect
    notes        \* onStatus/onError calls made by the last step, in order

vars == <<variant, mseSupported, state, connectTS, status, error, videoRef,
          videoSrc, sockets, sources, sinks, timers, now, arrived, runs,
          effect, limits, src, origin, media, codecsRef, supported, closures,
          notes>>

NULL == 0

Max(a, b) == IF a >= b THEN a ELSE b

(***************************************************************************)
(* Bounds of the model.                                                    *)
(* A behaviour is explored under one of two profiles: the session profile *)
(* (several connections and effect runs, few binary messages) or the data  *)
(* profile (one connection, more binary messages).                         *)
(***************************************************************************)
MaxConnects == 2     \* session profile: connect() calls
MaxRuns == 2         \* session profile: runs of the main effect
FewSegs == 1         \* session profile: binary messages
DataConnects == 1    \* data profile: connect() calls
DataRuns == 1        \* data profile: runs of the main effect
MaxSegs == 3         \* data profile: binary messages
MaxAge == 5000       \* fixed variant: a timestamp is not told from an older
                     \* one beyond this age (above threshold + interval)
MaxAgeRTC == 20000   \* rtc variant: the same (above RECONNECT_TIMEOUT)

\* the src property at an effect run
Srcs == {"", "/api/ws?src=camera1"}

\* the src property at an effect run, where the address opened is examined
Addresses ==
    {"", "http://cam/live", "https://cam/live", "/api/ws?src=camera1",
     "//cam/live", "ws://cam/live", "wss://cam/live", "live", "htt",
     "httpdocs/live"}

Origins == {"http://localhost", "https://localhost:8443"}

\* the initial value of codecsRef
Codecs ==
    << "avc1.640029", "avc1.64002A", "avc1.640033", "hvc1.1.6.L153.B0",
       "mp4a.40.2", "mp4a.40.5", "flac", "opus" >>

\* the argument getSupportedCodecs gives to isSupported
mimeType(codec) == "video/mp4; codecs=\"" \o codec \o "\""

AllTypes == { mimeType(Codecs[k]) : k \in DOMAIN Codecs }

\* the media property: the default and the single kinds
Medias == {"video,audio", "video", "audio"}

\* what isTypeSupported may accept: every candidate, or any choice among
\* one H.264 profile, H.265 and Opus
Probed == { mimeType(Codecs[k]) : k \in {1, 4, 8} }

Oracles == SUBSET Probed \cup {AllTypes}

SessionProfile ==
    [connects |-> MaxConnects, runs |-> MaxRuns, segs |-> FewSegs,
     srcs |-> Srcs]

DataProfile ==
    [connects |-> DataConnects, runs |-> DataRuns, segs |-> MaxSegs,
     srcs |-> Srcs]

\* the address profile: one effect run, with any of the addresses
AddressProfile ==
    [connects |-> MaxConnects, runs |-> DataRuns, segs |-> FewSegs,
     srcs |-> Addresses]

Profiles == {SessionProfile, DataProfile}

(***************************************************************************)
(* Program constants.                                                      *)
(***************************************************************************)
BufferCapacity == 2097152      \* new Uint8Array(2 * 1024 * 1024)
ReconnectDelay == 2000         \* setTimeout(..., 2000) in reconnect
StallCheckInterval == 2000     \* setInterval(..., 2000) in startStalledCheck
StallThreshold == 2000         \* timeSinceLastData > 2000
RetentionWindow == 10          \* currentTime - bufferedStart > 10
SafetyMargin == 5              \* sb.remove(bufferedStart, currentTime - 5)
RECONNECT_TIMEOUT == 15000     \* rtc variant
ReconnectingNoteDelay == 500   \* rtc variant: delay > 500

(***************************************************************************)
(* Inputs of the environment.                                              *)
(***************************************************************************)
\* byte lengths of inbound binary messages: two of the first fill the arena
\* exactly, the second makes a pair overflow it by one byte
SegSizes == {1048576, 1048577}
\* the value of an inbound {type: "error"} message
ErrorValues == {"stream not found"}
\* what sb.appendBuffer does: accepts, or throws QuotaExceededError
AppendOutcomes == {"ok", "quota"}
\* what the video element reports to trimBuffer: sb.buffered.length > 0,
\* sb.buffered.start(0), sb.buffered.end(last), video.currentTime (seconds)
TrimInputs ==
    { [buffered |-> FALSE, start |-> 0, end |-> 0, currentTime |-> 0],
      [buffered |-> TRUE, start |-> 0, end |-> 4, currentTime |-> 3],
      [buffered |-> TRUE, start |-> 0, end |-> 10, currentTime |-> 10],
      [buffered |-> TRUE, start |-> 0, end |-> 12, currentTime |-> 11] }
\* the input of trimBuffer in a handler that never reaches it
NoTrimInput == [buffered |-> FALSE, start |-> 0, end |-> 0, currentTime |-> 0]
\* clock steps
TimeSteps == {1000}
TimeStepsRTC == {5000}
\* Date.now() at construction
Epoch == 100000

(***************************************************************************)
(* The world record: all variables, as one value handlers transform.       *)
(***************************************************************************)
World ==
    [ variant |-> variant, mseSupported |-> mseSupported, state |-> state,
      connectTS |-> connectTS, status |-> status, error |-> error,
      videoRef |-> videoRef, videoSrc |-> videoSrc, sockets |-> sockets,
      sources |-> sources, sinks |-> sinks, timers |-> timers, now |-> now,
      arrived |-> arrived, runs |-> runs, effect |-> effect,
      limits |-> limits, src |-> src, origin |-> origin, media |-> media,
      codecsRef |-> codecsRef, supported |-> supported,
      closures |-> closures, notes |-> << >> ]

Commit(r) ==
    /\ variant' = r.variant
    /\ mseSupported' = r.mseSupported
    /\ state' = r.state
    /\ connectTS' = r.connectTS
    /\ status' = r.status
    /\ error' = r.error
    /\ videoRef' = r.videoRef
    /\ videoSrc' = r.videoSrc
    /\ sockets' = r.sockets
    /\ sources' = r.sources
    /\ sinks' = r.sinks
    /\ timers' = r.timers
    /\ now' = r.now
    /\ arrived' = r.arrived
    /\ runs' = r.runs
    /\ effect' = r.effect
    /\ limits' = r.limits
    /\ src' = r.src
    /\ origin' = r.origin
    /\ media' = r.media
    /\ codecsRef' = r.codecsRef
    /\ supported' = r.supported
    /\ closures' = r.closures
    /\ notes' = r.notes

(***************************************************************************)
(* Construction: useRef/useState initial values, before any effect runs.   *)
(***************************************************************************)
InitState ==
    [ ws |-> NULL, ms |-> NULL, sb |-> NULL, sbUpdateHandler |-> NULL,
      buffer |-> [data |-> << >>, length |-> 0],
      lastDataTime |-> 0, reconnectTimer |-> NULL,
      stalledCheckTimer |-> NULL, isMounted |-> TRUE,
      isReconnecting |-> FALSE ]

InitBase ==
    /\ mseSupported \in BOOLEAN
    /\ state = InitState
    /\ connectTS = 0
    /\ status = "connecting"
    /\ error = "null"
    /\ videoRef = TRUE
    /\ videoSrc = NULL
    /\ sockets = << >>
    /\ sources = << >>
    /\ sinks = << >>
    /\ timers = << >>
    /\ now = Epoch
    /\ arrived = 0
    /\ runs = 0
    /\ effect = FALSE
    /\ notes = << >>
    /\ src = ""
    /\ codecsRef = Codecs
    /\ closures = << >>

InitCommon ==
    /\ InitBase
    /\ limits \in Profiles
    /\ origin = "http://localhost"
    /\ media = "video,audio"
    /\ supported = AllTypes

(***************************************************************************)
(* Callbacks to the caller.                                                *)
(***************************************************************************)
updateStatus(r, s) ==
    [r EXCEPT !.status = s, !.notes = Append(@, <<"status", s>>)]

updateError(r, e) ==
    [r EXCEPT !.error = e, !.notes = Append(@, <<"error", e>>)]

(***************************************************************************)
(* Browser objects.                                                        *)
(***************************************************************************)
\* clearTimeout / clearInterval: no effect on an id that is not live
clearTimer(r, id) ==
    IF id = NULL THEN r
    ELSE [r EXCEPT !.timers[id].live = FALSE, !.timers[id].due = 0]

\* setTimeout / setInterval: the id returned is Len(timers) afterwards
newTimer(r, kind, delay) ==
    [r EXCEPT !.timers = Append(@,
        [kind |-> kind, due |-> r.now + delay, live |-> TRUE,
         delay |-> delay, session |-> Len(r.sockets), run |-> r.runs])]

\* a handler of socket i is attached
Attached(s) == s.onopen \/ s.onmessage \/ s.onclose \/ s.onerror

\* WebSocket.close(): a socket still connecting fails (an error event, then
\* a close event); an open socket closes (a close event).  The events of a
\* socket with no handler attached reach nobody: it is closed at once
wsClose(r, i) ==
    IF r.sockets[i].readyState \notin {"connecting", "open"} THEN r
    ELSE IF ~Attached(r.sockets[i])
    THEN [r EXCEPT !.sockets[i].readyState = "closed"]
    ELSE [r EXCEPT !.sockets[i].readyState = "closing",
                   !.sockets[i].errorPending =
                       (r.sockets[i].readyState = "connecting")]

\* WebSocket.send(): throws while connecting, is discarded while closing or
\* closed
wsSend(r, i, data) ==
    IF r.sockets[i].readyState = "open"
    THEN [r EXCEPT !.sockets[i].sent = @ + 1, !.sockets[i].data = data]
    ELSE r

\* the media element drops its media source: the source closes
detach(r) ==
    IF r.videoSrc = NULL THEN r
    ELSE [r EXCEPT !.sources[r.videoSrc].readyState = "closed",
                   !.videoSrc = NULL]

\* what a sink keeps of the segments given to it: which they were, in order
Logged(segs) ==
    [k \in DOMAIN segs |-> [seq |-> segs[k].seq, conn |-> segs[k].conn]]

\* sb.appendBuffer(segs) accepted: the sink takes the bytes and is updating
\* until its updateend
appendBuffer(r, b, segs) ==
    [r EXCEPT !.sinks[b].updating = TRUE,
              !.sinks[b].appended = @ \o Logged(segs)]

\* sb.remove(from, to): the sink is updating until its updateend
sbRemove(r, b, from, to) ==
    [r EXCEPT !.sinks[b].updating = TRUE,
              !.sinks[b].lastRemove = <<from, to>>]

\* ms.removeSourceBuffer for every buffer of source m: an append or remove
\* in progress is aborted and its updateend raised, which is kept pending
\* only if a listener is there to take it.  A removed buffer has no
\* buffered range and no streaming time left
removeSourceBuffers(r, m) ==
    [r EXCEPT !.sinks = [b \in DOMAIN r.sinks |->
        IF r.sinks[b].ms = m
        THEN [r.sinks[b] EXCEPT
                !.removed = TRUE,
                !.updating = @ /\ r.sinks[b].listener # NULL,
                !.lastRemove = << >>,
                !.since = 0]
        ELSE r.sinks[b]]]

(***************************************************************************)
(* The fixed-delay variant: src/src/MSEVideoStream.tsx lines 110-357       *)
(* (src/src/MSEVideoStream.js lines 71-329 is the same code).  A function  *)
(* of the source is the composition of its statements, each an operator.   *)
(***************************************************************************)
\* cleanup, statement by statement
clearReconnectTimer(r) ==
    IF r.state.reconnectTimer # NULL
    THEN [clearTimer(r, r.state.reconnectTimer)
              EXCEPT !.state.reconnectTimer = NULL]
    ELSE r

clearStalledCheckTimer(r) ==
    IF r.state.stalledCheckTimer # NULL
    THEN [clearTimer(r, r.state.stalledCheckTimer)
              EXCEPT !.state.stalledCheckTimer = NULL]
    ELSE r

\* state.sb.removeEventListener("updateend", state.sbUpdateHandler)
removeUpdateHandler(r) ==
    IF r.state.sb # NULL /\ r.state.sbUpdateHandler # NULL
    THEN [r EXCEPT !.sinks[r.state.sb].listener =
                       IF @ = r.state.sbUpdateHandler THEN NULL ELSE @,
                   !.state.sbUpdateHandler = NULL]
    ELSE r

\* faulty closeSocket: only onclose is set to null before ws.close()
closeSocketLeaky(r) ==
    IF r.state.ws # NULL
    THEN wsClose([r EXCEPT !.state.ws = NULL,
                           !.sockets[r.state.ws].onclose = FALSE],
                 r.state.ws)
    ELSE r

\* faulty closeSocket: the handle is dropped, the socket left as it is
closeSocketForget(r) ==
    IF r.state.ws # NULL THEN [r EXCEPT !.state.ws = NULL] ELSE r

\* state.ws = null; the four handlers set to null; ws.close()
closeSocket(r) ==
    IF r.state.ws # NULL
    THEN wsClose([r EXCEPT !.state.ws = NULL,
                           !.sockets[r.state.ws].onopen = FALSE,
                           !.sockets[r.state.ws].onmessage = FALSE,
                           !.sockets[r.state.ws].onclose = FALSE,
                           !.sockets[r.state.ws].onerror = FALSE],
                 r.state.ws)
    ELSE r

\* faulty releaseMediaSource: state.ms is not set to null
releaseMediaSourceKeep(r) ==
    IF r.state.ms = NULL THEN r
    ELSE IF r.sources[r.state.ms].readyState = "open"
    THEN removeSourceBuffers(r, r.state.ms)
    ELSE r

releaseMediaSource(r) ==
    IF r.state.ms = NULL THEN r
    ELSE IF r.sources[r.state.ms].readyState = "open"
    THEN [removeSourceBuffers(r, r.state.ms) EXCEPT !.state.ms = NULL]
    ELSE [r EXCEPT !.state.ms = NULL]

\* videoRef.current.src = ""
resetVideo(r) ==
    IF r.videoRef THEN detach(r) ELSE r

\* faulty resetBuffer: state.lastDataTime is not reset
resetBufferStale(r) ==
    [r EXCEPT !.state.sb = NULL,
              !.state.buffer = [data |-> << >>, length |-> 0]]

\* faulty resetBuffer: state.buffer.length is not reset
resetBufferKeep(r) ==
    [r EXCEPT !.state.sb = NULL, !.state.lastDataTime = 0]

\* the bytes of the arena at and after length are never read
\* (subarray(0, length)), so the queue holds the bytes before length only
resetBuffer(r) ==
    [r EXCEPT !.state.sb = NULL,
              !.state.buffer = [data |-> << >>, length |-> 0],
              !.state.lastDataTime = 0]

cleanup(r) ==
    resetBuffer(resetVideo(releaseMediaSource(closeSocket(
        removeUpdateHandler(clearStalledCheckTimer(
            clearReconnectTimer(r)))))))

\* new WebSocket(wsURL) with its four handlers; state.ws = ws.  after: the
\* session whose reconnect made this connection (0: the effect made it)
\* String.prototype.startsWith and String.prototype.substring(n)
startsWith(str, prefix) ==
    /\ Len(str) >= Len(prefix)
    /\ SubSeq(str, 1, Len(prefix)) = prefix

substring(str, n) ==
    IF n >= Len(str) THEN "" ELSE SubSeq(str, n + 1, Len(str))

\* the address connect() gives to new WebSocket
wsURL(r) ==
    IF startsWith(r.src, "http") THEN "ws" \o substring(r.src, 4)
    ELSE IF startsWith(r.src, "/")
    THEN "ws" \o substring(r.origin, 4) \o r.src
    ELSE r.src

\* new WebSocket(wsURL); state.ws = ws
openSocket(r, after) ==
    [r EXCEPT
       !.sockets = Append(@,
           [url |-> wsURL(r),
            readyState |-> "connecting", errorPending |-> FALSE,
            onopen |-> TRUE, onmessage |-> TRUE, onclose |-> TRUE,
            onerror |-> TRUE, sent |-> 0, data |-> "", replied |-> FALSE,
            after |-> after, reconnects |-> 0, stalls |-> 0,
            run |-> r.runs]),
       !.state.ws = Len(r.sockets) + 1]

\* faulty connect: updateError(null) is not commented out
connectClearing(r, after) ==
    openSocket(updateError(updateStatus(r, "connecting"), "null"), after)

\* the socket's handlers are the operators onopen, onmessage, onclose and
\* onerror below
connect(r, after) ==
    openSocket(updateStatus(r, "connecting"), after)

\* faulty reconnectFire: the connection is made without updateStatus
reconnectFireSilent(r, t) ==
    IF r.state.isMounted
    THEN openSocket([r EXCEPT !.state.isReconnecting = FALSE],
                    r.timers[t].session)
    ELSE [r EXCEPT !.state.isReconnecting = FALSE]

\* the callback of reconnect's setTimeout, for timer t
reconnectFire(r, t) ==
    IF r.state.isMounted
    THEN connect([r EXCEPT !.state.isReconnecting = FALSE],
                 r.timers[t].session)
    ELSE [r EXCEPT !.state.isReconnecting = FALSE]

\* state.isReconnecting = true (and the count of reconnects of the session)
markReconnecting(r) ==
    [r EXCEPT !.state.isReconnecting = TRUE,
              !.sockets[Len(r.sockets)].reconnects = @ + 1]

\* state.reconnectTimer = (the timer just made)
keepReconnectTimer(r) ==
    [r EXCEPT !.state.reconnectTimer = Len(r.timers)]

\* faulty reconnect: the session is not cleaned up
reconnectNoCleanup(r) ==
    IF ~r.state.isMounted \/ r.state.isReconnecting THEN r
    ELSE keepReconnectTimer(newTimer(
             updateStatus(markReconnecting(r), "reconnecting"),
             "timeout", ReconnectDelay))

reconnect(r) ==
    IF ~r.state.isMounted \/ r.state.isReconnecting THEN r
    ELSE keepReconnectTimer(newTimer(
             updateStatus(cleanup(markReconnecting(r)), "reconnecting"),
             "timeout", ReconnectDelay))

\* updateStatus("stalled") (and the count of stalls of the session)
notifyStalled(r) ==
    updateStatus([r EXCEPT !.sockets[Len(r.sockets)].stalls = @ + 1],
                 "stalled")

\* faulty stalledCheck: timeSinceLastData >= 2000
stalledCheckEager(r) ==
    IF r.state.lastDataTime = 0 THEN r
    ELSE IF r.now - r.state.lastDataTime >= StallThreshold
    THEN reconnect(notifyStalled(r))
    ELSE r

\* the callback of startStalledCheck's setInterval
stalledCheck(r) ==
    IF r.state.lastDataTime = 0 THEN r
    ELSE IF r.now - r.state.lastDataTime > StallThreshold
    THEN reconnect(notifyStalled(r))
    ELSE r

keepStalledCheckTimer(r) ==
    [r EXCEPT !.state.stalledCheckTimer = Len(r.timers)]

startStalledCheck(r) ==
    keepStalledCheckTimer(newTimer(
        clearTimer(r, r.state.stalledCheckTimer),
        "interval", StallCheckInterval))

\* faulty trimBuffer: currentTime - bufferedStart >= 10
trimBufferEager(r, v) ==
    IF r.state.sb = NULL THEN r
    ELSE IF r.sinks[r.state.sb].updating THEN r
    ELSE IF v.buffered /\ v.currentTime - v.start >= RetentionWindow
    THEN sbRemove(r, r.state.sb, v.start, v.currentTime - SafetyMargin)
    ELSE r

\* v: what the video element reports (TrimInputs)
trimBuffer(r, v) ==
    IF r.state.sb = NULL THEN r
    ELSE IF r.sinks[r.state.sb].updating THEN r
    ELSE IF v.buffered /\ v.currentTime - v.start > RetentionWindow
    THEN sbRemove(r, r.state.sb, v.start, v.currentTime - SafetyMargin)
    ELSE r

\* state.buffer.data.set(dataView, state.buffer.length);
\* state.buffer.length += dataView.byteLength
enqueue(r, seg) ==
    [r EXCEPT !.state.buffer.data = Append(@, seg),
              !.state.buffer.length = @ + seg.size]

\* faulty route: the capacity is not checked before the copy
routeUnbounded(r, seg, outcome, v) ==
    IF r.state.sb = NULL THEN r
    ELSE IF r.sinks[r.state.sb].updating \/ r.state.buffer.length > 0
    THEN enqueue(r, seg)
    ELSE IF outcome = "ok" THEN appendBuffer(r, r.state.sb, <<seg>>)
    ELSE trimBuffer(r, v)

\* faulty route: a full queue is emptied to make room for the segment
routeEvict(r, seg, outcome, v) ==
    IF r.state.sb = NULL THEN r
    ELSE IF r.sinks[r.state.sb].updating \/ r.state.buffer.length > 0
    THEN IF r.state.buffer.length + seg.size <= BufferCapacity
         THEN enqueue(r, seg)
         ELSE [r EXCEPT !.state.buffer =
                            [data |-> <<seg>>, length |-> seg.size]]
    ELSE IF outcome = "ok" THEN appendBuffer(r, r.state.sb, <<seg>>)
    ELSE trimBuffer(r, v)

\* faulty route: with no sink yet the segment is queued for it
routeEarly(r, seg, outcome, v) ==
    IF r.state.sb = NULL
    THEN IF r.state.buffer.length + seg.size <= BufferCapacity
         THEN enqueue(r, seg)
         ELSE r
    ELSE IF r.sinks[r.state.sb].updating \/ r.state.buffer.length > 0
    THEN IF r.state.buffer.length + seg.size <= BufferCapacity
         THEN enqueue(r, seg)
         ELSE r
    ELSE IF outcome = "ok" THEN appendBuffer(r, r.state.sb, <<seg>>)
    ELSE trimBuffer(r, v)

\* appendData after its first statement.  seg: the inbound binary message;
\* outcome: what sb.appendBuffer does
route(r, seg, outcome, v) ==
    IF r.state.sb = NULL THEN r
    ELSE IF r.sinks[r.state.sb].updating \/ r.state.buffer.length > 0
    THEN IF r.state.buffer.length + seg.size <= BufferCapacity
         THEN enqueue(r, seg)
         ELSE r
    ELSE IF outcome = "ok" THEN appendBuffer(r, r.state.sb, <<seg>>)
    ELSE trimBuffer(r, v)

\* faulty appendData: the timestamp is only set for a segment that is not
\* dropped
appendDataLate(r, seg, outcome, v) ==
    IF route(r, seg, outcome, v) = r THEN r
    ELSE route([r EXCEPT !.state.lastDataTime = r.now], seg, outcome, v)

appendData(r, seg, outcome, v) ==
    route([r EXCEPT !.state.lastDataTime = r.now], seg, outcome, v)

\* faulty flushed: state.buffer.length is not set to 0
flushedKeep(r, b) ==
    appendBuffer(r, b, r.state.buffer.data)

\* sb.appendBuffer(subarray(0, length)) accepted; state.buffer.length = 0
flushed(r, b) ==
    [appendBuffer(r, b, r.state.buffer.data)
         EXCEPT !.state.buffer = [data |-> << >>, length |-> 0]]

\* faulty flush: state.buffer.length = 0 before the append is tried
flushLossy(r, b, outcome, v) ==
    IF ~r.sinks[b].updating /\ r.state.buffer.length > 0
    THEN IF outcome = "ok" THEN flushed(r, b)
         ELSE trimBuffer([r EXCEPT !.state.buffer =
                                      [data |-> << >>, length |-> 0]], v)
    ELSE r

\* the first statement of the updateend listener of sink b
flush(r, b, outcome, v) ==
    IF ~r.sinks[b].updating /\ r.state.buffer.length > 0
    THEN IF outcome = "ok" THEN flushed(r, b) ELSE trimBuffer(r, v)
    ELSE r

\* the updateend listener made by setupSourceBuffer for sink b
sbUpdateHandler(r, b, outcome, v) ==
    trimBuffer(flush(r, b, outcome, v), v)

\* state.ms.addSourceBuffer(codecString) with its updateend listener;
\* state.sbUpdateHandler and state.sb are set (conn: the connection the
\* session holds when the sink is made)
addSourceBuffer(r) ==
    [r EXCEPT
       !.sinks = Append(@,
           [ms |-> r.state.ms, updating |-> FALSE,
            listener |-> Len(r.sinks) + 1, removed |-> FALSE,
            appended |-> << >>, lastRemove |-> << >>,
            since |-> r.now, conn |-> r.state.ws]),
       !.state.sbUpdateHandler = Len(r.sinks) + 1,
       !.state.sb = Len(r.sinks) + 1]

\* faulty setupSourceBuffer: the negotiation is notified before the sink is
\* made
setupSourceBufferNotify(r) ==
    IF r.state.ms = NULL THEN r
    ELSE IF r.sources[r.state.ms].readyState # "open" THEN r
    ELSE startStalledCheck(updateStatus(
             addSourceBuffer(updateStatus(r, "negotiating")), "streaming"))

\* addSourceBuffer throws InvalidStateError unless the source is open: the
\* exception ends the message handler with nothing changed
setupSourceBuffer(r) ==
    IF r.state.ms = NULL THEN r
    ELSE IF r.sources[r.state.ms].readyState # "open" THEN r
    ELSE startStalledCheck(updateStatus(addSourceBuffer(r), "streaming"))

\* String.prototype.includes
includes(str, part) ==
    \E k \in 1..(Len(str) - Len(part) + 1) :
        SubSeq(str, k, k + Len(part) - 1) = part

\* Array.prototype.join()
RECURSIVE join(_)
join(list) ==
    IF list = << >> THEN ""
    ELSE IF Len(list) = 1 THEN list[1]
    ELSE list[1] \o "," \o join(Tail(list))

\* the first filter of getSupportedCodecs
requested(r, codec) ==
    includes(r.media, IF includes(codec, "vc1") THEN "video" ELSE "audio")

\* the second filter of getSupportedCodecs
isSupported(r, codec) == mimeType(codec) \in r.supported

\* faulty getSupportedCodecs: the media property is not looked at
getSupportedCodecsAnyKind(r) ==
    join(SelectSeq(r.codecsRef, LAMBDA c : isSupported(r, c)))

getSupportedCodecs(r) ==
    join(SelectSeq(SelectSeq(r.codecsRef, LAMBDA c : requested(r, c)),
                   LAMBDA c : isSupported(r, c)))

\* faulty sourceopen: the negotiation is notified
sourceopenNotify(r) ==
    IF r.state.ws # NULL
    THEN updateStatus(wsSend(r, r.state.ws, getSupportedCodecs(r)),
                      "negotiating")
    ELSE r

\* the once-listener of "sourceopen" made by setupMSE
sourceopen(r) ==
    IF r.state.ws # NULL
    THEN wsSend(r, r.state.ws, getSupportedCodecs(r))
    ELSE r

\* state.ms = new MediaSourceClass()
newMediaSource(r) ==
    [r EXCEPT
       !.sources = Append(@,
           [readyState |-> "closed", sourceopen |-> "pending",
            run |-> r.runs]),
       !.state.ms = Len(r.sources) + 1]

\* videoRef.current.srcObject = state.ms, or .src = createObjectURL(state.ms)
attachMediaSource(r) ==
    IF r.videoRef THEN [detach(r) EXCEPT !.videoSrc = r.state.ms] ELSE r

setupMSE(r) ==
    IF ~r.mseSupported
    THEN updateStatus(updateError(r, "MediaSource not supported"), "error")
    ELSE attachMediaSource(newMediaSource(r))

\* faulty onopen: the stall check is started when the socket opens
onopenArming(r) ==
    startStalledCheck(setupMSE(updateError(updateStatus(r, "open"), "null")))

onopen(r) ==
    setupMSE(updateError(updateStatus(r, "open"), "null"))

\* faulty onmessage: an error message is reported, no reconnect follows
onmessageNoRetry(r, msg, outcome, v) ==
    IF msg.type = "mse" THEN setupSourceBuffer(r)
    ELSE IF msg.type = "error"
    THEN updateStatus(updateError(r, msg.value), "error")
    ELSE appendData(r, msg.seg, outcome, v)

\* msg: [type |-> "mse"], [type |-> "error", value |-> ...] or
\* [type |-> "binary", seg |-> ...]
onmessage(r, msg, outcome, v) ==
    IF msg.type = "mse" THEN setupSourceBuffer(r)
    ELSE IF msg.type = "error"
    THEN reconnect(updateStatus(updateError(r, msg.value), "error"))
    ELSE appendData(r, msg.seg, outcome, v)

\* faulty onclose: the close is reported, no reconnect follows
oncloseQuiet(r, i) ==
    IF r.state.ws = i
    THEN updateStatus([r EXCEPT !.state.ws = NULL], "closed")
    ELSE r

onclose(r, i) ==
    IF r.state.ws = i
    THEN reconnect(updateStatus([r EXCEPT !.state.ws = NULL], "closed"))
    ELSE r

onerror(r) ==
    updateStatus(updateError(r, "Connection failed"), "error")

\* the body of the main effect
effectBody(r) ==
    IF r.src = "" \/ ~r.videoRef THEN r
    ELSE connect([r EXCEPT !.state.isMounted = TRUE,
                           !.state.isReconnecting = FALSE,
                           !.effect = TRUE], 0)

\* faulty teardown: the stop is notified
teardownNotify(r) ==
    updateStatus(cleanup([r EXCEPT !.state.isMounted = FALSE,
                                   !.effect = FALSE]), "stopped")

\* the function the main effect returns
teardown(r) ==
    cleanup([r EXCEPT !.state.isMounted = FALSE, !.effect = FALSE])

(***************************************************************************)
(* The VideoRTC-style variant: src/src/MSEVideoStream.tsx lines 541-796.   *)
(* Code that is the same as in the fixed variant shares its operators:     *)
(* the timer, listener, media-source and video statements of cleanup,      *)
(* setupMSE with its sourceopen listener (lines 704-735) and ws.onopen     *)
(* (lines 752-756).                                                        *)
(***************************************************************************)
\* state.ws.onclose = null; state.ws.close(); state.ws = null: the open,
\* message and error handlers stay
closeSocketRTC(r) ==
    IF r.state.ws # NULL
    THEN [wsClose([r EXCEPT !.sockets[r.state.ws].onclose = FALSE],
                  r.state.ws)
              EXCEPT !.state.ws = NULL]
    ELSE r

resetBufferRTC(r) ==
    [r EXCEPT !.state.sb = NULL,
              !.state.buffer = [data |-> << >>, length |-> 0]]

cleanupRTC(r) ==
    resetBufferRTC(resetVideo(releaseMediaSource(closeSocketRTC(
        removeUpdateHandler(clearReconnectTimer(r))))))

\* faulty connect: connectTSRef.current is not set
connectRTCUnstamped(r, after) ==
    openSocket(updateStatus(r, "connecting"), after)

connectRTC(r, after) ==
    openSocket([updateStatus(r, "connecting") EXCEPT !.connectTS = r.now],
               after)

\* the callback of reconnect's setTimeout, for timer t
reconnectFireRTC(r, t) ==
    IF r.state.isMounted
    THEN connectRTC([r EXCEPT !.state.isReconnecting = FALSE],
                    r.timers[t].session)
    ELSE [r EXCEPT !.state.isReconnecting = FALSE]

\* faulty reconnectDelay: the difference is not clamped at 0
reconnectDelayUnclamped(r) ==
    RECONNECT_TIMEOUT - (r.now - r.connectTS)

\* Math.max(RECONNECT_TIMEOUT - (Date.now() - connectTSRef.current), 0)
reconnectDelay(r) ==
    Max(RECONNECT_TIMEOUT - (r.now - r.connectTS), 0)

\* faulty notifyReconnecting: notified whatever the delay
notifyReconnectingAlways(r, delay) ==
    updateStatus(r, "reconnecting")

\* if (delay > 500) updateStatus("reconnecting")
notifyReconnecting(r, delay) ==
    IF delay > ReconnectingNoteDelay
    THEN updateStatus(r, "reconnecting")
    ELSE r

\* reconnect from state.isReconnecting = true on, with the delay computed
scheduleRTC(r, delay) ==
    keepReconnectTimer(newTimer(
        notifyReconnecting(cleanupRTC(markReconnecting(r)), delay),
        "timeout", delay))

reconnectRTC(r) ==
    IF ~r.state.isMounted \/ r.state.isReconnecting THEN r
    ELSE scheduleRTC(r, reconnectDelay(r))

\* "1. Append pending data" of the updateend listener of sink b
flushRTC(r, b, outcome) ==
    IF ~r.sinks[b].updating /\ r.state.buffer.length > 0
    THEN IF outcome = "ok" THEN flushed(r, b) ELSE r
    ELSE r

\* "2. Buffer management" of the updateend listener of sink b: everything
\* older than 5 s from the buffered end is removed; the playback-rate and
\* seek adjustments that follow only touch the video element
trimRTC(r, b, v) ==
    IF ~r.sinks[b].updating /\ v.buffered /\ r.videoRef
       /\ v.end - SafetyMargin > v.start
    THEN sbRemove(r, b, v.start, v.end - SafetyMargin)
    ELSE r

sbUpdateHandlerRTC(r, b, outcome, v) ==
    trimRTC(flushRTC(r, b, outcome), b, v)

onMSE(r) ==
    IF r.state.ms = NULL THEN r
    ELSE IF r.sources[r.state.ms].readyState # "open" THEN r
    ELSE updateStatus(addSourceBuffer(r), "streaming")

appendDataRTC(r, seg, outcome) ==
    IF r.state.sb = NULL THEN r
    ELSE IF r.sinks[r.state.sb].updating \/ r.state.buffer.length > 0
    THEN IF r.state.buffer.length + seg.size <= BufferCapacity
         THEN enqueue(r, seg)
         ELSE r
    ELSE IF outcome = "ok" THEN appendBuffer(r, r.state.sb, <<seg>>)
    ELSE r

\* an error message is only logged (console.warn)
onmessageRTC(r, msg, outcome) ==
    IF msg.type = "mse" THEN onMSE(r)
    ELSE IF msg.type = "error" THEN r
    ELSE appendDataRTC(r, msg.seg, outcome)

oncloseRTC(r, i) ==
    IF r.state.ws = i
    THEN reconnectRTC(updateStatus([r EXCEPT !.state.ws = NULL], "closed"))
    ELSE r

onerrorRTC(r) ==
    updateError(r, "Connection failed")

\* the body of the main effect; its pause listener only touches the video
\* element
effectBodyRTC(r) ==
    IF r.src = "" \/ ~r.videoRef THEN r
    ELSE connectRTC([r EXCEPT !.state.isMounted = TRUE,
                              !.state.isReconnecting = FALSE,
                              !.effect = TRUE], 0)

teardownRTC(r) ==
    cleanupRTC([r EXCEPT !.state.isMounted = FALSE, !.effect = FALSE])

(***************************************************************************)
(* The listener-based variant: src/unnamed/part_003 lines 103-319.  The    *)
(* main effect keeps ws, ms and reconnectTimeout in variables of its own   *)
(* (closures[c] for run c) and the handlers are listeners that are never   *)
(* removed; wsRef, msRef, sbRef and bufferRef are state.ws, state.ms,      *)
(* state.sb and state.buffer.  The effect that trims codecsRef only acts   *)
(* in Safari, which is not the browser modelled.                           *)
(***************************************************************************)
ReconnectDelayListener == 5000  \* setTimeout(..., 5000) in the close listener

\* ws = new WebSocket(wsURL) with its four listeners; wsRef.current = ws
connectListener(r, c, after) ==
    [openSocket(updateError(updateStatus(r, "connecting"), "null"), after)
        EXCEPT !.closures[c].ws = Len(r.sockets) + 1,
               !.sockets[Len(r.sockets) + 1].run = c]

\* the once-listener of "sourceopen" made by setupMSE in run c
sourceopenListener(r, c) ==
    IF r.closures[c].ws # NULL
    THEN wsSend(r, r.closures[c].ws, getSupportedCodecs(r))
    ELSE r

\* ms = new MediaSource(); the element takes it; msRef.current = ms
setupMSEListener(r, c) ==
    IF ~r.mseSupported
    THEN updateStatus(
             updateError(r, "MediaSource API not supported in this browser"),
             "error")
    ELSE [attachMediaSource(newMediaSource(r))
             EXCEPT !.closures[c].ms = Len(r.sources) + 1,
                    !.sources[Len(r.sources) + 1].run = c]

openListener(r, c) ==
    setupMSEListener(updateError(updateStatus(r, "open"), "null"), c)

\* const sb = ms.addSourceBuffer(codecString) with its updateend listener;
\* sbRef.current = sb
addSourceBufferListener(r, c, i) ==
    [r EXCEPT
       !.sinks = Append(@,
           [ms |-> r.closures[c].ms, updating |-> FALSE,
            listener |-> Len(r.sinks) + 1, removed |-> FALSE,
            appended |-> << >>, lastRemove |-> << >>,
            since |-> r.now, conn |-> i]),
       !.state.sb = Len(r.sinks) + 1]

\* setupSourceBuffer(msg.value); updateStatus("streaming").  addSourceBuffer
\* throws unless the source is open: the exception ends the listener
mseListener(r, c, i) ==
    IF r.closures[c].ms = NULL THEN updateStatus(r, "streaming")
    ELSE IF r.sources[r.closures[c].ms].readyState # "open" THEN r
    ELSE updateStatus(addSourceBufferListener(r, c, i), "streaming")

\* the message listener of socket i
messageListener(r, i, msg, outcome) ==
    IF msg.type = "mse" THEN mseListener(r, r.sockets[i].run, i)
    ELSE IF msg.type = "error"
    THEN updateStatus(updateError(r, msg.value), "error")
    ELSE appendDataRTC(r, msg.seg, outcome)

\* the close listener of socket i: ws = null and a reconnect in 5 s
closeListener(r, i) ==
    [newTimer(updateStatus(r, "closed"), "timeout", ReconnectDelayListener)
        EXCEPT !.closures[r.sockets[i].run].ws = NULL,
               !.closures[r.sockets[i].run].reconnectTimeout =
                   Len(r.timers) + 1,
               !.timers[Len(r.timers) + 1].run = r.sockets[i].run,
               !.timers[Len(r.timers) + 1].session = i]

errorListener(r) ==
    updateError(r, "WebSocket connection failed")

\* the callback of the close listener's setTimeout, for timer t
reconnectFireListener(r, t) ==
    connectListener(r, r.timers[t].run, r.timers[t].session)

\* the updateend listener of sink b
updateendListener(r, b, outcome) ==
    flushRTC(r, b, outcome)

effectBodyListener(r) ==
    IF r.src = "" \/ ~r.videoRef
    THEN [r EXCEPT !.closures = Append(@,
             [ws |-> NULL, ms |-> NULL, reconnectTimeout |-> NULL])]
    ELSE connectListener(
             [r EXCEPT !.closures = Append(@,
                           [ws |-> NULL, ms |-> NULL,
                            reconnectTimeout |-> NULL]),
                       !.effect = TRUE],
             r.runs, 0)

\* the function the main effect of run c returns, statement by statement
clearReconnectTimeout(r, c) ==
    clearTimer(r, r.closures[c].reconnectTimeout)

closeWs(r, c) ==
    IF r.closures[c].ws # NULL THEN wsClose(r, r.closures[c].ws) ELSE r

removeBuffers(r, c) ==
    IF r.closures[c].ms = NULL THEN r
    ELSE IF r.sources[r.closures[c].ms].readyState = "open"
    THEN removeSourceBuffers(r, r.closures[c].ms)
    ELSE r

clearRefs(r) ==
    [r EXCEPT !.state.ws = NULL, !.state.ms = NULL, !.state.sb = NULL,
              !.state.buffer = [data |-> << >>, length |-> 0]]

teardownListener(r) ==
    clearRefs(resetVideo(removeBuffers(closeWs(clearReconnectTimeout(
        [r EXCEPT !.effect = FALSE], r.runs), r.runs), r.runs)))

(***************************************************************************)
(* Actions: one per event the browser or React delivers.                   *)
(***************************************************************************)
\* React runs the main effect: at mount, and after a teardown when src or
\* media changed (never after the unmount, which has taken the element)
Mount(address) ==
    /\ ~effect
    /\ videoRef
    /\ runs < limits.runs
    /\ Len(sockets) < limits.connects
    /\ address \in limits.srcs
    /\ LET r == [World EXCEPT !.runs = @ + 1, !.src = address] IN
       Commit(IF variant = "fixed" THEN effectBody(r)
              ELSE IF variant = "rtc" THEN effectBodyRTC(r)
              ELSE effectBodyListener(r))

\* React runs the teardown: before a re-run of the effect (the element is
\* still there) or at unmount (videoRef.current is already null)
Unmount(refNull) ==
    /\ effect
    /\ LET r == [World EXCEPT !.videoRef = ~refNull] IN
       Commit(IF variant = "fixed" THEN teardown(r)
              ELSE IF variant = "rtc" THEN teardownRTC(r)
              ELSE teardownListener(r))

\* the connection is established
WsOpen(i) ==
    /\ sockets[i].readyState = "connecting"
    /\ LET r == [World EXCEPT !.sockets[i].readyState = "open"] IN
       Commit(IF ~sockets[i].onopen THEN r
              ELSE IF variant = "listener"
              THEN openListener(r, sockets[i].run)
              ELSE onopen(r))

\* the connection fails, or the error event of a failed connection is
\* delivered; the close event follows
WsError(i) ==
    /\ \/ sockets[i].readyState \in {"connecting", "open"}
       \/ sockets[i].readyState = "closing" /\ sockets[i].errorPending
    /\ LET r == [World EXCEPT !.sockets[i].readyState = "closing",
                              !.sockets[i].errorPending = FALSE] IN
       Commit(IF ~sockets[i].onerror THEN r
              ELSE IF variant = "fixed" THEN onerror(r)
              ELSE IF variant = "rtc" THEN onerrorRTC(r)
              ELSE errorListener(r))

\* the close event: the server closed an open connection, or a closing
\* connection finished
WsClose(i) ==
    /\ \/ sockets[i].readyState = "open"
       \/ sockets[i].readyState = "closing" /\ ~sockets[i].errorPending
    /\ LET r == [World EXCEPT !.sockets[i].readyState = "closed"] IN
       Commit(IF ~sockets[i].onclose THEN r
              ELSE IF variant = "fixed" THEN onclose(r, i)
              ELSE IF variant = "rtc" THEN oncloseRTC(r, i)
              ELSE closeListener(r, i))

\* the server answers the negotiation message: {type: "mse", value: codecs}
ServerMse(i) ==
    /\ sockets[i].readyState = "open"
    /\ sockets[i].sent > 0
    /\ ~sockets[i].replied
    /\ LET r == [World EXCEPT !.sockets[i].replied = TRUE] IN
       Commit(IF ~sockets[i].onmessage THEN r
              ELSE IF variant = "fixed"
              THEN onmessage(r, [type |-> "mse"], "ok", NoTrimInput)
              ELSE IF variant = "rtc"
              THEN onmessageRTC(r, [type |-> "mse"], "ok")
              ELSE messageListener(r, i, [type |-> "mse"], "ok"))

\* the server sends {type: "error", value: e}
ServerError(i, e) ==
    /\ sockets[i].readyState = "open"
    /\ LET r == World
           msg == [type |-> "error", value |-> e]
       IN Commit(IF ~sockets[i].onmessage THEN r
                 ELSE IF variant = "fixed"
                 THEN onmessage(r, msg, "ok", NoTrimInput)
                 ELSE IF variant = "rtc" THEN onmessageRTC(r, msg, "ok")
                 ELSE messageListener(r, i, msg, "ok"))

\* the server sends a binary message of size bytes
ServerBinary(i, size, outcome, v) ==
    /\ sockets[i].readyState = "open"
    /\ arrived < limits.segs
    /\ LET r == [World EXCEPT !.arrived = @ + 1]
           seg == [seq |-> arrived + 1, size |-> size, conn |-> i]
           msg == [type |-> "binary", seg |-> seg]
       IN Commit(IF ~sockets[i].onmessage THEN r
                 ELSE IF variant = "fixed"
                 THEN onmessage(r, msg, outcome, v)
                 ELSE IF variant = "rtc" THEN onmessageRTC(r, msg, outcome)
                 ELSE messageListener(r, i, msg, outcome))

\* the media source raises "sourceopen"; it is open if the element still
\* holds it
SourceOpen(m) ==
    /\ sources[m].sourceopen = "pending"
    /\ LET r == [World EXCEPT
                   !.sources[m].sourceopen = "fired",
                   !.sources[m].readyState =
                       IF videoSrc = m THEN "open" ELSE @] IN
       Commit(IF variant = "listener"
              THEN sourceopenListener(r, sources[m].run)
              ELSE sourceopen(r))

\* a sink ends an append or a remove and raises "updateend"
UpdateEnd(b, outcome, v) ==
    /\ sinks[b].updating
    /\ LET r == [World EXCEPT !.sinks[b].updating = FALSE] IN
       Commit(IF sinks[b].listener = NULL THEN r
              ELSE IF variant = "fixed"
              THEN sbUpdateHandler(r, sinks[b].listener, outcome, v)
              ELSE IF variant = "rtc"
              THEN sbUpdateHandlerRTC(r, sinks[b].listener, outcome, v)
              ELSE updateendListener(r, sinks[b].listener, outcome))

\* a reconnect timeout is due
ReconnectTimerFire(t) ==
    /\ timers[t].live
    /\ timers[t].kind = "timeout"
    /\ timers[t].due <= now
    /\ Len(sockets) < limits.connects
    /\ LET r == [World EXCEPT !.timers[t].live = FALSE,
                              !.timers[t].due = 0] IN
       Commit(IF variant = "fixed" THEN reconnectFire(r, t)
              ELSE IF variant = "rtc" THEN reconnectFireRTC(r, t)
              ELSE reconnectFireListener(r, t))

\* a stall-check interval is due
StalledCheckTick(t) ==
    /\ timers[t].live
    /\ timers[t].kind = "interval"
    /\ timers[t].due <= now
    /\ Commit(stalledCheck([World EXCEPT
                              !.timers[t].due = @ + timers[t].delay]))

\* the oldest timestamp told from older ones
Oldest(r) ==
    r.now - (IF r.variant = "fixed" THEN MaxAge ELSE MaxAgeRTC)

\* the timestamp ts, d ms later, seen from an unmoved Date.now()
Aged(r, ts, d) ==
    IF ts = 0 THEN 0 ELSE Max(ts - d, Oldest(r))

\* d ms pass, never past a timer that is due.  The code uses the clock only
\* in differences (now - lastDataTime, now - connectTS) and timer delays, so
\* the clock is kept relative: every recorded timestamp and due time moves
\* d ms back while Date.now() reads the same, which is the same state up to
\* the origin of time; a timestamp older than Oldest is kept at Oldest
Advance(d) ==
    /\ d \in (IF variant = "fixed" THEN TimeSteps ELSE TimeStepsRTC)
    /\ \A t \in DOMAIN timers : timers[t].live => now + d <= timers[t].due
    /\ LET r == World IN
       Commit([r EXCEPT
                 !.state.lastDataTime = Aged(r, @, d),
                 !.connectTS = Aged(r, @, d),
                 !.timers = [t \in DOMAIN r.timers |->
                     IF r.timers[t].live
                     THEN [r.timers[t] EXCEPT !.due = @ - d]
                     ELSE r.timers[t]],
                 !.sinks = [b \in DOMAIN r.sinks |->
                     [r.sinks[b] EXCEPT !.since = Aged(r, @, d)]]])

Sockets == DOMAIN sockets

Next ==
    \/ \E s \in Srcs \cup Addresses : Mount(s)
    \/ \E refNull \in BOOLEAN : Unmount(refNull)
    \/ \E i \in Sockets : WsOpen(i)
    \/ \E i \in Sockets : WsError(i)
    \/ \E i \in Sockets : WsClose(i)
    \/ \E i \in Sockets : ServerMse(i)
    \/ \E i \in Sockets, e \in ErrorValues : ServerError(i, e)
    \/ \E i \in Sockets, size \in SegSizes, outcome \in AppendOutcomes,
          v \in TrimInputs : ServerBinary(i, size, outcome, v)
    \/ \E m \in DOMAIN sources : SourceOpen(m)
    \/ \E b \in DOMAIN sinks, outcome \in AppendOutcomes, v \in TrimInputs :
          UpdateEnd(b, outcome, v)
    \/ \E t \in DOMAIN timers : ReconnectTimerFire(t)
    \/ \E t \in DOMAIN timers : StalledCheckTick(t)
    \/ \E d \in TimeSteps \cup TimeStepsRTC : Advance(d)

Init == InitCommon /\ variant = "fixed"

Spec == Init /\ [][Next]_vars

\* both variants
InitVariants == InitCommon /\ variant \in {"fixed", "rtc"}

SpecVariants == InitVariants /\ [][Next]_vars

\* the fixed-delay variant under the address profile, at any origin
InitURL ==
    /\ InitBase
    /\ variant = "fixed"
    /\ limits = AddressProfile
    /\ origin \in Origins
    /\ media = "video,audio"
    /\ supported = AllTypes

SpecURL == InitURL /\ [][Next]_vars

\* the fixed-delay variant with any media property and any answer of
\* isTypeSupported
InitCodecs ==
    /\ InitBase
    /\ variant = "fixed"
    /\ limits = [AddressProfile EXCEPT !.srcs = Srcs]
    /\ origin = "http://localhost"
    /\ media \in Medias
    /\ supported \in Oracles

SpecCodecs == InitCodecs /\ [][Next]_vars

\* the three variants
InitAllVariants == InitCommon /\ variant \in {"fixed", "rtc", "listener"}

SpecAllVariants == InitAllVariants /\ [][Next]_vars


(***************************************************************************)
(* The fair specification: a due reconnect timeout fires and time passes   *)
(* (the host event loop runs timers); nothing else is forced to happen.    *)
(***************************************************************************)
SpecLive ==
    /\ Init
    /\ [][Next]_vars
    /\ WF_vars(\E t \in DOMAIN timers : ReconnectTimerFire(t))
    /\ WF_vars(\E d \in TimeSteps : Advance(d))

(***************************************************************************)
(* Properties.                                                             *)
(***************************************************************************)
\* socket i can still deliver an event to a handler of the component
Live(i) == Attached(sockets[i]) /\ sockets[i].readyState # "closed"

LiveTimers(kind) ==
    {t \in DOMAIN timers : timers[t].live /\ timers[t].kind = kind}

StatusNote(s) == <<"status", s>>

ErrorNote(e) == <<"error", e>>

\* C1 - Teardown silence: once the effect teardown has returned (isMounted
\* is false and cleanup has run), no step makes a status or error callback,
\* no timer of the component is live (so no watchdog tick and no reconnect
\* fire can occur), no socket is left that could deliver an event to a
\* handler, and no updateend listener is left attached, whatever state the
\* session was stopped in and whatever happens later.
TeardownSilence ==
    ~state.isMounted =>
        /\ notes = << >>
        /\ \A t \in DOMAIN timers : ~timers[t].live
        /\ \A i \in DOMAIN sockets : ~Live(i)
        /\ \A b \in DOMAIN sinks : sinks[b].listener = NULL
        /\ state.reconnectTimer = NULL /\ state.stalledCheckTimer = NULL

\* a session stopped while streaming, its watchdog cancelled, and a
\* session stopped while its connection was still being made
StoppedWhileStreaming ==
    /\ ~state.isMounted
    /\ \E t \in DOMAIN timers : timers[t].kind = "interval"
    /\ \E i \in DOMAIN sockets : sockets[i].sent = 0

\* C2 - Single-flight reconnect: at most one reconnect timeout is pending;
\* a session is cleaned up and notified 'reconnecting' at most once, by the
\* first trigger; at most one connection is made after it, and only by its
\* reconnect; while a reconnect is pending no socket and no watchdog is
\* left that could raise a further trigger.
SingleFlightReconnect ==
    /\ Cardinality(LiveTimers("timeout")) <= 1
    /\ \A i \in DOMAIN sockets :
         /\ sockets[i].reconnects <= 1
         /\ Cardinality({j \in DOMAIN sockets : sockets[j].after = i}) <= 1
         /\ sockets[i].after # 0 => sockets[sockets[i].after].reconnects = 1
    /\ state.isReconnecting /\ state.isMounted =>
         /\ LiveTimers("timeout") = {state.reconnectTimer}
         /\ LiveTimers("interval") = {}
         /\ \A i \in DOMAIN sockets : ~Live(i)
         /\ state.ws = NULL /\ state.sb = NULL

\* a reconnect is pending for a session that reported an error message
\* while its socket was open (its close event is the second trigger)
ReconnectPendingAfterError ==
    /\ state.isReconnecting
    /\ status = "reconnecting"
    /\ error \in ErrorValues
    /\ sockets[Len(sockets)].reconnects = 1

\* the bytes of the segments q
RECURSIVE Bytes(_)
Bytes(q) == IF q = << >> THEN 0 ELSE Head(q).size + Bytes(Tail(q))

\* C3 - Buffer bound: 0 <= buffer.length <= capacity (2 MiB) in every
\* reachable state, and buffer.length is the number of bytes queued.
BufferBound ==
    /\ 0 <= state.buffer.length
    /\ state.buffer.length <= BufferCapacity
    /\ state.buffer.length = Bytes(state.buffer.data)

\* the arena is exactly full
BufferFull == state.buffer.length = BufferCapacity

\* C4 - Order preservation: what a sink has been handed, by direct appends
\* and by flushes, is in strictly increasing arrival order (so no segment
\* reversed, none twice), consists of segments that arrived, and no segment
\* is handed to two sinks.
OrderPreservation ==
    /\ \A b \in DOMAIN sinks :
         /\ \A k \in DOMAIN sinks[b].appended :
              /\ sinks[b].appended[k].seq \in 1..arrived
              /\ k > 1 => sinks[b].appended[k - 1].seq < sinks[b].appended[k].seq
    /\ \A b, c \in DOMAIN sinks :
         b # c =>
            \A k \in DOMAIN sinks[b].appended, l \in DOMAIN sinks[c].appended :
                sinks[b].appended[k].seq # sinks[c].appended[l].seq

\* a sink took one segment directly and two more from a flush of the queue
FlushedInOrder ==
    \E b \in DOMAIN sinks :
        /\ Len(sinks[b].appended) = 3
        /\ state.buffer.length = 0
        /\ sinks[b].updating

\* C5 - Exactly one live session: at most one socket can deliver events to
\* the component, and it is the one the session holds (state.ws); so a
\* connection is never made while an earlier one is live.
OneLiveSession ==
    /\ Cardinality({i \in DOMAIN sockets : Live(i)}) <= 1
    /\ \A i \in DOMAIN sockets : Live(i) => state.ws = i
    /\ state.ws # NULL => state.ws = Len(sockets)

\* a second connection is live after the first was given up
SecondSessionLive ==
    /\ Len(sockets) = 2
    /\ Live(2)
    /\ sockets[2].readyState = "open"

\* C6 - Automatic reconnection: when the close of the live session's
\* socket has been handled while the component is mounted (and the model's
\* bound leaves room for a connection), a new connection is eventually
\* made, unless the component is stopped first.
ClosedAt(k) ==
    /\ Len(sockets) = k
    /\ k < limits.connects
    /\ state.isMounted
    /\ notes # << >>
    /\ notes[1] = StatusNote("closed")

AutomaticReconnection ==
    \A k \in 1..MaxConnects :
        ClosedAt(k) ~> (Len(sockets) > k \/ ~state.isMounted)

\* the connection made by the reconnect that followed a close
ReconnectedAfterClose ==
    /\ Len(sockets) = 2
    /\ sockets[2].after = 1
    /\ sockets[1].readyState = "closed"
    /\ Attached(sockets[1])
    /\ notes = <<StatusNote("connecting")>>

\* C7 - Watchdog timing: at a watchdog tick with data last received at
\* lastDataTime, nothing changes and nothing is notified if
\* now - lastDataTime <= 2000; if now - lastDataTime > 2000 the tick
\* notifies 'stalled' and then 'reconnecting' with nothing in between; a
\* session is notified 'stalled' at most once.
WatchdogStep(t) ==
    StalledCheckTick(t) /\ state.lastDataTime # 0 =>
        IF now - state.lastDataTime <= StallThreshold
        THEN /\ notes' = << >>
             /\ status' = status
             /\ state' = state
        ELSE /\ notes' = <<StatusNote("stalled"), StatusNote("reconnecting")>>
             /\ status' = "reconnecting"

WatchdogTiming ==
    [][/\ \A t \in DOMAIN timers : WatchdogStep(t)
       /\ \A i \in DOMAIN sockets' : sockets'[i].stalls <= 1]_vars

\* the watchdog has just declared a stall
StallDeclared ==
    notes = <<StatusNote("stalled"), StatusNote("reconnecting")>>

\* C8 - Stall recovery: a streaming session (from its negotiation on) is
\* never without data for longer than the threshold plus one watchdog
\* interval: by then the watchdog has declared the stall and the session
\* has been taken down by the reconnect path; this includes a session no
\* segment ever arrived in.
StallRecovery ==
    state.sb # NULL =>
        now - Max(state.lastDataTime, sinks[state.sb].since)
            <= StallThreshold + StallCheckInterval

\* C9 - Inbound error control message (as stated): in every variant, an
\* error message on the live connection gives its value to the error
\* callback, then status 'error', and schedules a reconnect.
ErrorMessageStep(i, e) ==
    ServerError(i, e) /\ sockets[i].onmessage /\ state.ws = i =>
        /\ Len(notes') >= 2
        /\ notes'[1] = ErrorNote(e)
        /\ notes'[2] = StatusNote("error")
        /\ error' = e
        /\ state'.isReconnecting
        /\ state'.reconnectTimer # NULL
        /\ timers'[state'.reconnectTimer].live

ErrorMessageAllVariants ==
    [][\A i \in DOMAIN sockets, e \in ErrorValues : ErrorMessageStep(i, e)]_vars

\* C9 - Inbound error control message (amended): the same, in the
\* fixed-delay variant; the reconnect is due 2000 ms later.
ErrorMessageFixed ==
    [][variant = "fixed" =>
         \A i \in DOMAIN sockets, e \in ErrorValues :
            /\ ErrorMessageStep(i, e)
            /\ ServerError(i, e) /\ sockets[i].onmessage /\ state.ws = i =>
                 /\ notes' = <<ErrorNote(e), StatusNote("error"),
                               StatusNote("reconnecting")>>
                 /\ timers'[state'.reconnectTimer].due = now + ReconnectDelay
      ]_vars

\* the fixed-delay variant has just handled an error message
ErrorMessageHandled ==
    /\ variant = "fixed"
    /\ \E e \in ErrorValues :
          notes = <<ErrorNote(e), StatusNote("error"),
                    StatusNote("reconnecting")>>

\* C10 - Drop-incoming on full: when appendData has to queue (sink
\* updating or queue non-empty) and buffer.length + size > capacity, the
\* queue (its length and its bytes) is unchanged and no sink is handed
\* anything.
DropStep(i, size, outcome, v) ==
    /\ ServerBinary(i, size, outcome, v)
    /\ sockets[i].onmessage
    /\ state.sb # NULL
    /\ sinks[state.sb].updating \/ state.buffer.length > 0
    /\ state.buffer.length + size > BufferCapacity
    => /\ state'.buffer = state.buffer
       /\ sinks' = sinks

ReconnectDelayStep ==
    /\ Len(sockets') > Len(sockets) => connectTS' = now'
    /\ Len(sockets') = Len(sockets) /\ ~(\E d \in TimeStepsRTC : Advance(d))
         => connectTS' = connectTS
    /\ Len(timers') > Len(timers) =>
         LET t == timers'[Len(timers')]
             lifetime == now - connectTS
         IN /\ Len(timers') = Len(timers) + 1
            /\ t.kind = "timeout"
            /\ t.due = now' + t.delay
            /\ t.delay >= 0
            /\ IF lifetime >= RECONNECT_TIMEOUT
               THEN t.delay = 0
               ELSE t.delay + lifetime = RECONNECT_TIMEOUT /\ t.delay > 0

ExponentialBackoff ==
    \A t, u \in DOMAIN timers :
        /\ timers[t].kind = "timeout"
        /\ timers[u].kind = "timeout"
        /\ sockets[timers[u].session].after = timers[t].session
        /\ sockets[timers[u].session].sent = 0
        => /\ timers[u].delay > timers[t].delay
           /\ timers[u].delay >= 2 * timers[t].delay

\* the world after the teardown is run in the current state (refNull: the
\* video element is already gone)
Stopped(refNull) ==
    teardown([World EXCEPT !.videoRef = @ /\ ~refNull])

\* C13 - Idempotent stop: from every reachable state, running the teardown
\* a second time changes nothing of what the first run left (session
\* state, sockets, media sources, sinks, timers) and makes no notification
\* beyond those of the first run.
IdempotentStop ==
    \A refNull \in BOOLEAN : teardown(Stopped(refNull)) = Stopped(refNull)

\* a streaming session with queued bytes and an armed watchdog, which a
\* stop takes down
StopTakesDown ==
    /\ effect
    /\ state.sb # NULL
    /\ state.buffer.length > 0
    /\ state.stalledCheckTimer # NULL
    /\ Stopped(FALSE).state.sb = NULL
    /\ Stopped(FALSE).sockets # sockets
    /\ Stopped(FALSE).timers # timers

\* C14 - No data survives a reconnect (in both variants): after every
\* reconnect and every stop the queue is empty (it holds bytes only while
\* the session has a sink); the queue only holds bytes received on the
\* connection the session holds; and every segment a sink was handed was
\* received on the connection the sink was made for.
NoDataSurvives ==
    /\ (state.isReconnecting \/ ~state.isMounted \/ state.sb = NULL) =>
           state.buffer.length = 0 /\ state.buffer.data = << >>
    /\ \A k \in DOMAIN state.buffer.data :
           state.buffer.data[k].conn = state.ws
    /\ \A b \in DOMAIN sinks :
           /\ sinks[b].conn \in DOMAIN sockets
           /\ \A c \in DOMAIN sinks : b < c => sinks[b].conn < sinks[c].conn
           /\ \A k \in DOMAIN sinks[b].appended :
                  sinks[b].appended[k].conn = sinks[b].conn

\* bytes were received on the first connection, and the sink made for the
\* second connection holds none of them
LaterSinkClean ==
    /\ Len(sinks) = 2
    /\ sinks[1].conn = 1 /\ sinks[1].appended # << >>
    /\ sinks[2].conn = 2 /\ sinks[2].appended = << >>
    /\ state.sb = 2

\* C15 - FatalUnsupported ends the retry loop: once "MediaSource not
\* supported" has been surfaced (no MediaSource class at the open event),
\* no step schedules a reconnect and no step makes a connection, except a
\* new run of the effect (the caller reconfigures).
FatalUnsupportedEndsRetry ==
    [][/\ ~mseSupported
       /\ error = "MediaSource not supported"
       /\ runs' = runs
       => /\ Len(timers') = Len(timers)
          /\ Len(sockets') = Len(sockets)]_vars

\* C16 - Handshake: no connection ever carries two negotiation messages;
\* a negotiation message is only sent on a connection that has opened; and
\* a sink is only made for a connection that carries its negotiation
\* message.
Handshake ==
    /\ \A i \in DOMAIN sockets :
          /\ sockets[i].sent <= 1
          /\ sockets[i].sent > 0 => sockets[i].readyState # "connecting"
    /\ \A b \in DOMAIN sinks : sockets[sinks[b].conn].sent >= 1

StatusNotes == { notes[k][2] : k \in { j \in DOMAIN notes : notes[j][1] = "status" } }

\* C17 - Status vocabulary: every value passed to the status callback, by
\* any step of either variant, is one of 'connecting', 'open', 'streaming',
\* 'closed', 'error', 'stalled', 'reconnecting'; the state kept by
\* updateStatus (initially 'connecting') holds such a value too.
StatusVocabulary ==
    LET Vocabulary == {"connecting", "open", "streaming", "closed", "error",
                       "stalled", "reconnecting"}
    IN  /\ StatusNotes \subseteq Vocabulary
        /\ status \in Vocabulary

\* a step notified two statuses, after the session had stalled
StatusesNotified ==
    /\ StatusNotes = {"closed", "reconnecting"}
    /\ \E i \in DOMAIN sockets : sockets[i].stalls > 0

\* C18 - Capacity rejection is retried: when the sink, idle and with an
\* empty queue before it, rejects the append of an inbound segment with
\* QuotaExceededError, or rejects the flush of the queue at an updateend,
\* the bytes are not handed to the sink in that callback and they are kept
\* in the queue, from where they are offered to the sink again.
RejectedDirectStep(i, size, v) ==
    /\ ServerBinary(i, size, "quota", v)
    /\ sockets[i].onmessage
    /\ state.sb # NULL
    /\ ~sinks[state.sb].updating
    /\ state.buffer.length = 0
    => /\ sinks'[state.sb].appended = sinks[state.sb].appended
       /\ \E k \in DOMAIN state'.buffer.data :
             state'.buffer.data[k].seq = arrived + 1

RejectedFlushStep(b, v) ==
    /\ UpdateEnd(b, "quota", v)
    /\ sinks[b].listener # NULL
    /\ state.buffer.length > 0
    => /\ sinks'[b].appended = sinks[b].appended
       /\ state'.buffer = state.buffer

CapacityRejectionRetried ==
    [][/\ \A i \in DOMAIN sockets, size \in SegSizes, v \in TrimInputs :
             RejectedDirectStep(i, size, v)
       /\ \A b \in DOMAIN sinks, v \in TrimInputs :
             RejectedFlushStep(b, v)]_vars

\* C19 - Capacity escalation: when the sink rejects the flush of the queue
\* at an updateend (the retry of bytes it could not take before) and
\* nothing can be trimmed, the session takes the reconnect path in that
\* step: it is marked reconnecting and a reconnect timeout is scheduled.
EscalationStep(b, v) ==
    /\ UpdateEnd(b, "quota", v)
    /\ sinks[b].listener = b
    /\ state.sb = b
    /\ state.buffer.length > 0
    /\ ~(v.buffered /\ v.currentTime - v.start > RetentionWindow)
    => /\ state'.isReconnecting
       /\ state'.reconnectTimer # NULL

CapacityEscalation ==
    [][\A b \in DOMAIN sinks, v \in TrimInputs : EscalationStep(b, v)]_vars

SchemeReplaced(a) ==
    IF startsWith(a, "http:") THEN "ws:" \o substring(a, 5)
    ELSE IF startsWith(a, "https:") THEN "wss:" \o substring(a, 6)
    ELSE a

Normalized(a, o) ==
    IF startsWith(a, "http:") \/ startsWith(a, "https:")
    THEN SchemeReplaced(a)
    ELSE IF startsWith(a, "/") THEN SchemeReplaced(o) \o a
    ELSE a

\* C20 - URL normalization: whenever a socket is made, at the first connect
\* or at a reconnect, the address it is opened with is the src property
\* with its http or https scheme replaced by ws or wss and the rest
\* unchanged; or, for a src beginning with '/', the origin with its scheme
\* replaced the same way, followed by src; or src itself, for every other
\* src.
URLNormalization ==
    [][Len(sockets') > Len(sockets)
          => sockets'[Len(sockets')].url = Normalized(src', origin')]_vars

\* the kind of a candidate codec: H.264 and H.265 are video, the others
\* audio
Kind(codec) ==
    IF codec \in {Codecs[1], Codecs[2], Codecs[3], Codecs[4]}
    THEN "video" ELSE "audio"

RequestedKinds ==
    CASE media = "video" -> {"video"}
      [] media = "audio" -> {"audio"}
      [] media = "video,audio" -> {"video", "audio"}

\* the accepted candidates of the requested kinds among the first n, in
\* the order of the list, each followed by a comma
RECURSIVE Accepted(_)
Accepted(n) ==
    IF n = 0 THEN ""
    ELSE IF /\ Kind(Codecs[n]) \in RequestedKinds
            /\ mimeType(Codecs[n]) \in supported
         THEN Accepted(n - 1) \o Codecs[n] \o ","
         ELSE Accepted(n - 1)

\* the same without the last comma
NegotiatedList ==
    LET all == Accepted(Len(Codecs))
    IN  IF all = "" THEN "" ELSE SubSeq(all, 1, Len(all) - 1)

\* C21 - Codec filtering: for every media property (video, audio or both)
\* and every answer of isTypeSupported, the value of every negotiation
\* message sent is the comma-joined list of the candidates whose kind is
\* requested and that isTypeSupported accepts, in the order of the
\* candidate list; and the candidate list is never changed.
CodecFiltering ==
    /\ codecsRef = Codecs
    /\ \A i \in DOMAIN sockets :
          sockets[i].sent > 0 => sockets[i].data = NegotiatedList

\* a negotiation message that names one video and one audio codec, where
\* both kinds were asked for and others were refused
FilteredListSent ==
    /\ media = "video,audio"
    /\ supported # AllTypes
    /\ \E i \in DOMAIN sockets :
          sockets[i].sent > 0 /\ sockets[i].data = "hvc1.1.6.L153.B0,opus"

\* C22 - Callback detachment in the VideoRTC-style variant: a connection
\* that cleanup() has closed (it is no longer state.ws) has no handler left
\* that an event could invoke, and after the stop no step makes a status or
\* error callback.
CallbackDetachmentRTC ==
    variant = "rtc" =>
        /\ \A i \in DOMAIN sockets : i # state.ws => ~Live(i)
        /\ ~state.isMounted => notes = << >>

\* C23 - Stop cancels reconnection permanently in the listener-based
\* variant: while the teardown of the main effect has run and the effect
\* has not run again, no step makes a connection, schedules a timer or
\* notifies a status, whatever event is delivered.
StopCancelsReconnection ==
    [][variant = "listener" /\ ~effect /\ ~effect'
          => /\ Len(sockets') = Len(sockets)
             /\ Len(timers') = Len(timers)
             /\ StatusNotes' = {}]_vars

\* the stall-check interval is armed only for a session that has its sink,
\* it is the one the component holds, and none is armed after a stop or
\* while a reconnect is pending
Armed ==
    /\ Cardinality(LiveTimers("interval")) <= 1
    /\ \A t \in LiveTimers("interval") :
          /\ state.stalledCheckTimer = t
          /\ state.sb # NULL /\ ~sinks[state.sb].removed
          /\ state.ws # NULL /\ sinks[state.sb].conn = state.ws
          /\ state.isMounted /\ ~state.isReconnecting

\* C24 - Watchdog arming: after every step the stall-check interval is
\* armed only if the current session has completed negotiation (its sink
\* exists) and at most one interval is armed; a step that stops the
\* session or schedules a reconnect leaves none armed; and an interval is
\* only made by the handling of an accepted-codec reply.
WatchdogArming ==
    [][/\ Armed'
       /\ (~state'.isMounted \/ state'.isReconnecting)
             => LiveTimers("interval")' = {}
       /\ (\E t \in DOMAIN timers' \ DOMAIN timers :
               timers'[t].kind = "interval")
             => \E i \in DOMAIN sockets : ServerMse(i)]_vars

\* the watchdog armed for the second session, the first one's cancelled
RearmedAfterReconnect ==
    /\ LiveTimers("interval") # {}
    /\ \E t \in DOMAIN timers :
          timers[t].kind = "interval" /\ ~timers[t].live
    /\ \E i \in DOMAIN sockets : sockets[i].reconnects > 0

\* C25 - Reconnect-storm prevention (VideoRTC-style variant): every
\* connection attempt records its time in connectTS; a connection attempt
\* made within a run of the effect (by a reconnect) comes at least
\* RECONNECT_TIMEOUT after the attempt before it; and a reconnect scheduled
\* for a session that has lived at least that long has delay zero and is
\* due at once.
StormPrevention ==
    [][variant = "rtc" =>
         /\ Len(sockets') > Len(sockets) => connectTS' = now'
         /\ Len(sockets') > Len(sockets) /\ runs' = runs
               => now - connectTS >= RECONNECT_TIMEOUT
         /\ \A t \in DOMAIN timers' \ DOMAIN timers :
               now - connectTS >= RECONNECT_TIMEOUT
                  => timers'[t].delay = 0 /\ timers'[t].due = now']_vars

\* a session that failed at once was reconnected 15000 ms later, and its
\* successor, which lived 15000 ms, is reconnected with no delay
StormAvoided ==
    /\ variant = "rtc"
    /\ Len(sockets) = 2 /\ sockets[2].after = 1 /\ sockets[2].run = 1
    /\ Len(timers) = 2
    /\ timers[1].delay = RECONNECT_TIMEOUT
    /\ timers[2].delay = 0 /\ timers[2].live

\* C26 - Empty negotiation: when no candidate codec is both requested and
\* accepted by isTypeSupported, no negotiation message is sent (none
\* carries an empty codec list), and once the source has opened the
\* failure is recorded as an error.
EmptyNegotiation ==
    /\ \A i \in DOMAIN sockets :
          sockets[i].sent > 0 => sockets[i].data # ""
    /\ \A m \in DOMAIN sources :
          /\ NegotiatedList = ""
          /\ sources[m].sourceopen = "fired"
          /\ state.ms = m
          => status = "error" /\ error # "null"

\* C27 - Status sequence of a successful session, as stated: the status
\* notified before 'streaming' is 'negotiating', the one before that 'open'
\* and the one before that 'connecting'.
StatusSequenceNegotiating ==
    [][/\ "streaming" \in StatusNotes' => status = "negotiating"
       /\ "negotiating" \in StatusNotes' => status = "open"
       /\ "open" \in StatusNotes' => status = "connecting"]_vars

\* C27, amended - the status notified before 'streaming' is 'open' and the
\* one before 'open' is 'connecting': a session that reaches streaming has
\* notified 'connecting', 'open', 'streaming' in this order with nothing in
\* between (the negotiation is not notified), and the step that notifies
\* 'streaming' notifies nothing else.
StatusSequence ==
    [][/\ "streaming" \in StatusNotes'
            => status = "open" /\ notes' = <<StatusNote("streaming")>>
       /\ "open" \in StatusNotes'
            => status = "connecting" /\ notes'[1] = StatusNote("open")]_vars

\* the second session of a run reached streaming
SecondSessionStreaming ==
    /\ notes = <<StatusNote("streaming")>>
    /\ Len(sockets) = 2
    /\ sockets[2].after = 1

\* C28 - Reconnecting is always notified, as stated: in both variants
\* every step that schedules a reconnect notifies 'reconnecting', whatever
\* the delay.
ReconnectingAlwaysNotified ==
    [][\A t \in DOMAIN timers' \ DOMAIN timers :
          timers'[t].kind = "timeout" => "reconnecting" \in StatusNotes']_vars

\* C28, amended - every step that schedules a reconnect in the fixed-delay
\* variant notifies 'reconnecting'; in the VideoRTC-style variant it does
\* so if and only if the delay computed exceeds 500 ms; 'connecting' is
\* never notified by the step that schedules the reconnect.
ReconnectingNotified ==
    [][\A t \in DOMAIN timers' \ DOMAIN timers :
          timers'[t].kind = "timeout" =>
             /\ variant = "fixed" => "reconnecting" \in StatusNotes'
             /\ variant = "rtc" =>
                   ("reconnecting" \in StatusNotes'
                       <=> timers'[t].delay > ReconnectingNoteDelay)
             /\ "connecting" \notin StatusNotes']_vars

\* a reconnect of the VideoRTC-style variant scheduled with no delay and
\* not notified
SilentReconnect ==
    /\ variant = "rtc"
    /\ StatusNotes = {"closed"}
    /\ \E t \in DOMAIN timers :
          timers[t].live /\ timers[t].kind = "timeout" /\ timers[t].delay = 0

\* C29 - Error state cleared on connect, as stated: in every variant the
\* step that makes a connection attempt leaves the recorded error null, and
\* whenever the status is 'connecting' the recorded error is null.
ErrorClearedOnConnect ==
    [][/\ Len(sockets') > Len(sockets) => error' = "null"
       /\ status' = "connecting" => error' = "null"]_vars

\* C29, amended - the listener-based variant resets the recorded error to
\* null in every connection attempt (connect notifies 'connecting', then
\* the error null); the fixed-delay and the VideoRTC-style variants leave
\* the recorded error as it was in connect and make no error callback
\* there; in all of them the error is reset when the socket opens.
ErrorClearedOnOpen ==
    [][/\ Len(sockets') > Len(sockets) =>
            IF variant = "listener"
            THEN /\ error' = "null"
                 /\ notes' = <<StatusNote("connecting"), ErrorNote("null")>>
            ELSE /\ error' = error
                 /\ notes' = <<StatusNote("connecting")>>
       /\ "open" \in StatusNotes' =>
            /\ Len(notes') >= 2
            /\ notes'[1] = StatusNote("open")
            /\ notes'[2] = ErrorNote("null")]_vars

\* the fixed-delay variant reconnecting with the error of the failed
\* connection still recorded
ErrorKeptWhileConnecting ==
    /\ variant = "fixed"
    /\ status = "connecting"
    /\ error = "Connection failed"
    /\ Len(sockets) = 2
    /\ sockets[2].readyState = "connecting"

\* sink b was asked to remove a range in this step
RemoveStarted(b) ==
    /\ sinks'[b].updating
    /\ sinks'[b].appended = sinks[b].appended
    /\ ~sinks'[b].removed

\* the range asked for is the one of the rule, for the positions v
TrimRule(b, v) ==
    /\ v.buffered
    /\ v.currentTime - v.start > 10
    /\ sinks'[b].lastRemove = <<v.start, v.currentTime - 5>>
    /\ sinks'[b].lastRemove[2] <= v.currentTime - 5

\* C30 - Trim rule: the sink is asked to discard data only by a step in
\* which it is not updating (it was given nothing in that step), only when
\* currentTime - bufferedStart > 10 s, and then exactly the range
\* [bufferedStart, currentTime - 5 s], so that nothing inside
\* [currentTime - 5 s, currentTime] is discarded.
TrimRuleHolds ==
    [][/\ \A i \in DOMAIN sockets, size \in SegSizes,
             outcome \in AppendOutcomes, v \in TrimInputs :
            ServerBinary(i, size, outcome, v) =>
               \A b \in DOMAIN sinks :
                  ~sinks[b].updating /\ RemoveStarted(b) => TrimRule(b, v)
       /\ \A b \in DOMAIN sinks, outcome \in AppendOutcomes,
             v \in TrimInputs :
            UpdateEnd(b, outcome, v) /\ RemoveStarted(b) => TrimRule(b, v)
       /\ \A b \in DOMAIN sinks :
            sinks'[b].lastRemove \notin {sinks[b].lastRemove, << >>} =>
               /\ sinks'[b].appended = sinks[b].appended
               /\ \/ \E i \in DOMAIN sockets, size \in SegSizes,
                        outcome \in AppendOutcomes, v \in TrimInputs :
                        ServerBinary(i, size, outcome, v)
                  \/ \E outcome \in AppendOutcomes, v \in TrimInputs :
                        UpdateEnd(b, outcome, v)]_vars

\* the sink was asked to remove [0, 6] with the playhead at 11
TrimRequested ==
    \E b \in DOMAIN sinks :
        /\ sinks[b].updating
        /\ sinks[b].lastRemove = <<0, 6>>
        /\ state.sb = b

\* C31 - Binary segment is state-neutral: a binary message taken by the
\* message handler of a streaming session (it has its sink) sets
\* lastDataTime to now, also when the segment is dropped or rejected, and
\* leaves the connection handle, the sink handle, both timer handles, every
\* timer and socket, the reconnect flag, the status and the error
\* unchanged; no status or error callback is made.
BinaryStep(i, size, outcome, v) ==
    /\ ServerBinary(i, size, outcome, v)
    /\ sockets[i].onmessage
    /\ state.sb # NULL
    => /\ state'.lastDataTime = now
       /\ state'.ws = state.ws /\ state'.sb = state.sb
       /\ state'.ms = state.ms
       /\ state'.reconnectTimer = state.reconnectTimer
       /\ state'.stalledCheckTimer = state.stalledCheckTimer
       /\ state'.isReconnecting = state.isReconnecting
       /\ state'.isMounted = state.isMounted
       /\ timers' = timers /\ sockets' = sockets
       /\ status' = status /\ error' = error
       /\ notes' = << >>

BinaryStateNeutral ==
    [][\A i \in DOMAIN sockets, size \in SegSizes,
          outcome \in AppendOutcomes, v \in TrimInputs :
            BinaryStep(i, size, outcome, v)]_vars

\* the third segment was dropped a second after the second was queued, and
\* the timestamp is the time of the third
TimestampOfDropped ==
    /\ status = "streaming"
    /\ arrived = 3
    /\ state.lastDataTime = now
    /\ Len(state.buffer.data) = 1
    /\ state.buffer.data[1].seq = 2
    /\ state.sb # NULL /\ sinks[state.sb].since < now

\* C32 - Flush: at an updateend taken by the listener of a sink (the sink
\* is then not updating), a non-empty queue is handed whole to the sink in
\* one append and buffer.length becomes 0; if the append throws, the queue
\* (its length and its bytes) is unchanged and the sink is given nothing;
\* with an empty queue the sink is given nothing.
FlushStep(b, outcome, v) ==
    /\ UpdateEnd(b, outcome, v)
    /\ sinks[b].listener = b
    => IF state.buffer.length > 0 /\ outcome = "ok"
       THEN /\ sinks'[b].appended =
                   sinks[b].appended \o Logged(state.buffer.data)
            /\ sinks'[b].updating
            /\ state'.buffer = [data |-> << >>, length |-> 0]
       ELSE /\ sinks'[b].appended = sinks[b].appended
            /\ state'.buffer = state.buffer

FlushAtUpdateEnd ==
    [][\A b \in DOMAIN sinks, outcome \in AppendOutcomes, v \in TrimInputs :
          FlushStep(b, outcome, v)]_vars

\* a flush of two queued segments was rejected: they are still queued, in
\* order, and the sink is idle
FlushRejected ==
    /\ state.sb # NULL
    /\ ~sinks[state.sb].updating
    /\ sinks[state.sb].lastRemove = << >>
    /\ Len(state.buffer.data) = 2
    /\ state.buffer.data[1].seq = 2 /\ state.buffer.data[2].seq = 3
    /\ state.buffer.length = state.buffer.data[1].size
                                + state.buffer.data[2].size

\* C33 - Overflow accounting: every segment dropped because the queue is
\* full is counted, so the drop changes the record the player keeps (the
\* state object and its buffer, where a counter has to live) in something
\* other than the last-data timestamp.
OverflowStep(i, size, outcome, v) ==
    /\ ServerBinary(i, size, outcome, v)
    /\ sockets[i].onmessage
    /\ state.sb # NULL
    /\ sinks[state.sb].updating \/ state.buffer.length > 0
    /\ state.buffer.length + size > BufferCapacity
    => [state' EXCEPT !.lastDataTime = 0] # [state EXCEPT !.lastDataTime = 0]

OverflowCounted ==
    [][\A i \in DOMAIN sockets, size \in SegSizes,
          outcome \in AppendOutcomes, v \in TrimInputs :
            OverflowStep(i, size, outcome, v)]_vars

\* what cleanup leaves of a session: no connection, media source or sink
\* handle, no watchdog interval, an empty queue and no last-data timestamp
NoResources ==
    /\ state.ws = NULL /\ state.ms = NULL /\ state.sb = NULL
    /\ state.stalledCheckTimer = NULL
    /\ LiveTimers("interval") = {}
    /\ state.buffer.length = 0 /\ state.buffer.data = << >>
    /\ state.lastDataTime = 0

\* C34 - Reconnect-pending invariant, as stated: in every reachable state
\* where isReconnecting is true the session holds no resources and exactly
\* one reconnect timer is pending.
ReconnectPendingAlways ==
    state.isReconnecting =>
        /\ NoResources
        /\ LiveTimers("timeout") = {state.reconnectTimer}

\* C34, amended - in every reachable state where isReconnecting is true
\* the session holds no resources; exactly one reconnect timer is pending
\* while the effect is mounted, and none after the teardown (which cancels
\* the timer and leaves the flag set); isReconnecting becomes false only
\* when that timer fires or a new effect run starts.
ReconnectPending ==
    /\ [](state.isReconnecting =>
            /\ NoResources
            /\ state.isMounted =>
                  LiveTimers("timeout") = {state.reconnectTimer}
            /\ ~state.isMounted =>
                  LiveTimers("timeout") = {} /\ state.reconnectTimer = NULL)
    /\ [][state.isReconnecting /\ ~state'.isReconnecting =>
            \/ \E t \in LiveTimers("timeout") : ReconnectTimerFire(t)
            \/ \E s \in limits.srcs : Mount(s)]_vars

\* the teardown ran while a reconnect was pending: the flag is still set
\* and the timer is cancelled
StoppedWhileReconnecting ==
    /\ state.isReconnecting
    /\ ~state.isMounted
    /\ \E t \in DOMAIN timers :
          timers[t].kind = "timeout" /\ ~timers[t].live /\ timers[t].due = 0

\* C35 - Queued bytes always have a pending flush: in every reachable
\* state, a non-empty queue implies that the sink of the session is
\* updating, so that an updateend which drains the queue is outstanding.
QueuedBytesFlushPending ==
    state.buffer.length > 0 =>
        /\ state.sb # NULL
        /\ sinks[state.sb].updating

\* C36 - No delivery before negotiation: a binary message handled while the
\* session has no sink (before the accepted-codec reply) is discarded: it is
\* neither queued nor given to any sink; and while the session has no sink
\* the queue is empty.
EarlyBinaryStep(i, size, outcome, v) ==
    /\ ServerBinary(i, size, outcome, v)
    /\ sockets[i].onmessage
    /\ state.sb = NULL
    => /\ state'.buffer = [data |-> << >>, length |-> 0]
       /\ state'.sb = NULL
       /\ sinks' = sinks

NoDeliveryBeforeNegotiation ==
    /\ [](state.sb = NULL =>
             state.buffer = [data |-> << >>, length |-> 0])
    /\ [][\A i \in DOMAIN sockets, size \in SegSizes,
             outcome \in AppendOutcomes, v \in TrimInputs :
               EarlyBinaryStep(i, size, outcome, v)]_vars

\* the first segment came before the codec reply and was discarded; the
\* sink made afterwards was given the second segment only
EarlySegmentDiscarded ==
    /\ state.sb # NULL
    /\ sinks[state.sb].since = now
    /\ arrived = 2
    /\ sinks[state.sb].appended = <<[seq |-> 2, conn |-> state.ws]>>
    /\ state.buffer.length = 0

\* C37 - No stale negotiation: a "sourceopen" of a media source that is no
\* longer the one of the session (the session that made it was torn down)
\* sends nothing: the count of messages sent on every connection is
\* unchanged by the step.
StaleSourceOpenStep(m) ==
    /\ SourceOpen(m)
    /\ state.ms # m
    => \A i \in DOMAIN sockets : sockets'[i].sent = sockets[i].sent

NoStaleNegotiation ==
    [][\A m \in DOMAIN sources : StaleSourceOpenStep(m)]_vars

\* C38 - Status ordering across reconnects: the notification that follows
\* 'reconnecting' is 'connecting' (nothing follows 'reconnecting' in the
\* step that notifies it, and the next step that notifies anything starts
\* with 'connecting'); and 'streaming' is notified only by the codec reply
\* on the open connection of the session while the last status notified is
\* the 'open' of that connection.
StatusOrdering ==
    [][/\ \A k \in DOMAIN notes' :
             notes'[k] = StatusNote("reconnecting") => k = Len(notes')
       /\ status = "reconnecting" /\ notes' # << >>
             => notes'[1] = StatusNote("connecting")
       /\ "streaming" \in StatusNotes'
             => /\ status = "open"
                /\ state.ws # NULL
                /\ ServerMse(state.ws)
                /\ sockets[state.ws].readyState = "open"
                /\ state'.ws = state.ws]_vars

\* the reconnect of the first session fired: 'connecting' was notified
\* after 'reconnecting' and the second connection is being made
ConnectingAfterReconnecting ==
    /\ notes = <<StatusNote("connecting")>>
    /\ state.isMounted
    /\ Len(sockets) = 2
    /\ sockets[2].after = 1
    /\ sockets[1].reconnects = 1
    /\ sockets[2].readyState = "connecting"

\* C39 - No stall from a stale timestamp: every step that drops or replaces
\* the connection of the session leaves lastDataTime = 0, and a non-zero
\* lastDataTime belongs to a session with a connection; lastDataTime gets a
\* new non-zero value only from a binary message handled on the connection
\* of the session (the passing of time aside); and a stall is declared only
\* by the watchdog of the current connection, from a non-zero lastDataTime.
FreshTimestamp ==
    /\ [](state.lastDataTime # 0 => state.ws # NULL)
    /\ [][/\ state'.ws # state.ws => state'.lastDataTime = 0
          /\ state'.lastDataTime # 0
                /\ state'.lastDataTime # state.lastDataTime
             => \/ /\ state.lastDataTime # 0
                   /\ \E d \in TimeSteps : Advance(d)
                \/ /\ state.ws # NULL
                   /\ state'.ws = state.ws
                   /\ state'.lastDataTime = now
                   /\ sockets[state.ws].onmessage
                   /\ \E size \in SegSizes, outcome \in AppendOutcomes,
                         v \in TrimInputs :
                           ServerBinary(state.ws, size, outcome, v)
          /\ "stalled" \in StatusNotes'
             => /\ state.lastDataTime # 0
                /\ now - state.lastDataTime > StallThreshold
                /\ \E t \in LiveTimers("interval") :
                      /\ StalledCheckTick(t)
                      /\ timers[t].session = state.ws]_vars

\* the first connection received a segment and was replaced; the second
\* session is streaming for some time with its watchdog armed and no
\* timestamp
TimestampResetAcrossSessions ==
    /\ state.ws = 2
    /\ state.sb # NULL
    /\ sinks[state.sb].conn = 2
    /\ sinks[state.sb].since < now
    /\ LiveTimers("interval") # {}
    /\ state.lastDataTime = 0
    /\ Len(sinks[1].appended) = 1
    /\ sinks[1].conn = 1

=============================================================================
